---- MODULE Spec2Model ----
(***************************************************************************)
(* EnvironmentalDataCache (src/environmental-data-cache.js): the bounding  *)
(* box of the constructor, the asynchronous initialize(), the synchronous  *)
(* getData(lat, lon) with its nearest-index search, sparse-cell lookup and *)
(* wind vector averaging.                                                  *)
(*                                                                         *)
(* JavaScript values are represented as follows.                           *)
(*   - an object (the response body, this.data) is a record; a key the     *)
(*     object does not have is a field the record does not have;           *)
(*   - an array is a sequence, JavaScript index i being element i + 1; an  *)
(*     index past the end reads undefined;                                 *)
(*   - this.data = null is the record NullData;                            *)
(*   - numbers of the grid are integers.  The trigonometry of the wind     *)
(*     average is done exactly in Z[sqrt 2]: <<a, b>> is a + b*sqrt(2).    *)
(***************************************************************************)
EXTENDS Integers, Sequences, FiniteSets, TLC

VARIABLES
    startLatLng,    \* constructor argument
    endLatLng,      \* constructor argument
    voyageDate,     \* this.voyageDate
    bounds,         \* this.bounds
    data,           \* this.data
    debugCounter,   \* this.debugCounter
    pc,             \* pc[p]: where call p of initialize() is suspended
    ret,            \* ret[p]: what call p of initialize() resolved to
    lat,            \* arguments of the last getData call
    lon,
    result,         \* what the last getData call returned
    arr,            \* arguments and result of findClosestIndex
    target,
    closest

vars == <<startLatLng, endLatLng, voyageDate, bounds, data, debugCounter,
          pc, ret, lat, lon, result, arr, target, closest>>

cacheVars == <<startLatLng, endLatLng, voyageDate, bounds, data, debugCounter,
               pc, ret, lat, lon, result>>

idxVars == <<arr, target, closest>>

-----------------------------------------------------------------------------
(* Bounds of the model.                                                    *)

\* longest axis handed to findClosestIndex
MaxAxisLen == 3
\* axis values are 0..MaxCoord, query values -1..MaxCoord+1
MaxCoord == 4
\* calls of initialize() on one instance
MaxInitCalls == 2
\* calls of getData() on one instance
MaxGetCalls == 2
\* wind speeds of a grid cell are 0..MaxSpeed
MaxSpeed == 2

-----------------------------------------------------------------------------
(* Math helpers.                                                           *)

Abs(x) == IF x < 0 THEN -x ELSE x

Min(a, b) == IF a < b THEN a ELSE b

Max(a, b) == IF a > b THEN a ELSE b

\* Math.round(x) is floor(x + 0.5); on an integer x that is floor((2x+1)/2).
MathRound(x) == (2 * x + 1) \div 2

-----------------------------------------------------------------------------
(* findClosestIndex(arr, target), lines 23-38.                             *)

\* The while loop of lines 26-31 from (low, high): the index returned from
\* inside the loop on an exact match, or the insertion point low it ends with.
RECURSIVE BinarySearch(_, _, _, _)
BinarySearch(a, t, low, high) ==
    IF low <= high
    THEN LET mid == (low + high) \div 2
         IN  IF a[mid + 1] = t THEN [found |-> TRUE, idx |-> mid]
             ELSE IF a[mid + 1] < t THEN BinarySearch(a, t, mid + 1, high)
             ELSE BinarySearch(a, t, low, mid - 1)
    ELSE [found |-> FALSE, idx |-> low]

\* The same with >= for > in line 34: a tie goes to the lower index.
findClosestIndexTieLow(a, t) ==
    LET s   == BinarySearch(a, t, 0, Len(a) - 1)
        low == s.idx
    IN  IF s.found THEN low
        ELSE IF low > 0 /\ (low = Len(a)
                            \/ Abs(a[low + 1] - t) >= Abs(a[low] - t))
        THEN low - 1
        ELSE low

findClosestIndex(a, t) ==
    LET s   == BinarySearch(a, t, 0, Len(a) - 1)
        low == s.idx
    IN  IF s.found THEN low
        ELSE IF low > 0 /\ (low = Len(a)
                            \/ Abs(a[low + 1] - t) > Abs(a[low] - t))
        THEN low - 1
        ELSE low

-----------------------------------------------------------------------------
(* Exact arithmetic in Z[sqrt 2] for lines 164-182: <<a, b>> is            *)
(* a + b*sqrt(2).  cos and sin of a multiple of 45 degrees are 0, +-1 or   *)
(* +-sqrt(2)/2, so twice the value is in Z[sqrt 2].                        *)

ZAdd(u, v) == <<u[1] + v[1], u[2] + v[2]>>

ZSub(u, v) == <<u[1] - v[1], u[2] - v[2]>>

ZMul(u, v) == <<u[1] * v[1] + 2 * u[2] * v[2], u[1] * v[2] + u[2] * v[1]>>

ZScale(n, u) == <<n * u[1], n * u[2]>>

\* The sign of a + b*sqrt(2): sqrt(2) is irrational, so a*a = 2*b*b only at 0.
ZSign(u) ==
    LET a == u[1]
        b == u[2]
    IN  IF a = 0 /\ b = 0 THEN 0
        ELSE IF a >= 0 /\ b >= 0 THEN 1
        ELSE IF a <= 0 /\ b <= 0 THEN -1
        ELSE IF a > 0 THEN (IF a * a > 2 * b * b THEN 1 ELSE -1)
        ELSE (IF 2 * b * b > a * a THEN 1 ELSE -1)

\* 2*Math.cos((90 - card*45) * Math.PI/180), by card modulo 8 (the cosine has
\* period 360 degrees = 8 cardinals).
Cos2(card) ==
    LET k == card % 8
    IN  CASE k = 0 -> <<0, 0>>
          [] k = 1 -> <<0, 1>>
          [] k = 2 -> <<2, 0>>
          [] k = 3 -> <<0, 1>>
          [] k = 4 -> <<0, 0>>
          [] k = 5 -> <<0, -1>>
          [] k = 6 -> <<-2, 0>>
          [] k = 7 -> <<0, -1>>

\* 2*Math.sin((90 - card*45) * Math.PI/180).
Sin2(card) ==
    LET k == card % 8
    IN  CASE k = 0 -> <<2, 0>>
          [] k = 1 -> <<0, 1>>
          [] k = 2 -> <<0, 0>>
          [] k = 3 -> <<0, -1>>
          [] k = 4 -> <<-2, 0>>
          [] k = 5 -> <<0, -1>>
          [] k = 6 -> <<0, 0>>
          [] k = 7 -> <<0, 1>>

\* A speed is kept as 16 times its square, in Z[sqrt 2]: Math.sqrt of a
\* number of Z[sqrt 2] is in general not in it.  ExactSpeed(n) is the speed n.
ExactSpeed(n) == <<16 * n * n, 0>>

\* tan(22.5 degrees) = sqrt(2) - 1.
Tan22 == <<-1, 1>>

ZOne == <<1, 0>>

ZNeg(u) == <<-u[1], -u[2]>>

\* The direction <<east, north>> of compass bearing 22.5 + 45*j degrees.
SectorEdge(j) ==
    CASE j = 0 -> <<Tan22, ZOne>>
      [] j = 1 -> <<ZOne, Tan22>>
      [] j = 2 -> <<ZOne, ZNeg(Tan22)>>
      [] j = 3 -> <<Tan22, ZNeg(ZOne)>>
      [] j = 4 -> <<ZNeg(Tan22), ZNeg(ZOne)>>
      [] j = 5 -> <<ZNeg(ZOne), ZNeg(Tan22)>>
      [] j = 6 -> <<ZNeg(ZOne), Tan22>>
      [] j = 7 -> <<ZNeg(Tan22), ZOne>>

\* 0 when the bearing of <<x, y>> is in [0, 180), 1 when it is in [180, 360).
WestHalf(x, y) ==
    IF ZSign(x) > 0 \/ (ZSign(x) = 0 /\ ZSign(y) > 0) THEN 0 ELSE 1

\* The bearing of the non-zero <<x, y>> is at or past the bearing of edge j,
\* both taken in [0, 360).
AtOrPast(x, y, j) ==
    LET e == SectorEdge(j)
        h == WestHalf(x, y)
        g == WestHalf(e[1], e[2])
    IN  \/ h > g
        \/ /\ h = g
           /\ ZSign(ZSub(ZMul(e[2], x), ZMul(e[1], y))) >= 0

\* Lines 177-182 on the averaged vector <<x, y>> (any positive multiple of it
\* has the same angle).  final_angle_deg = atan2(y, x) in degrees, and
\* cardinal_float = (90 - final_angle_deg)/45 is the compass bearing in units
\* of 45 degrees; (cardinal_float % 8 + 8) % 8 brings it into [0, 8) and
\* Math.round, which is floor(c + 0.5), counts the sector edges j + 0.5 that
\* are at or below it.  Math.atan2(0, 0) is 0: the bearing is 90, cardinal 2.
RoundedCardinal(x, y) ==
    IF ZSign(x) = 0 /\ ZSign(y) = 0 THEN 2
    ELSE Cardinality({j \in 0..7 : AtOrPast(x, y, j)})

-----------------------------------------------------------------------------
(* getData(lat, lon), lines 131-218.                                       *)

\* The default of getValue's defaultVal parameter, line 143.
Sentinel == -9999

\* this.data = null
NullData == [isNull |-> TRUE]

\* depth: null of the returned record; a depth d is <<d>>.
NullDepth == <<>>

\* A TypeError thrown out of getData.
TypeError == [throws |-> "TypeError"]

\* The record of line 134, returned while this.data is null.
DefaultRecord ==
    [depth |-> NullDepth, wind_speed_mps |-> ExactSpeed(0), wind_cardinal |-> 0,
     current_speed_mps |-> 0, current_cardinal |-> 0, waves_height_m |-> 0,
     weekly_precip_mean |-> 0, ice_conc |-> 0]

\* getValue(gridName), lines 143-149: the cell when the grid, its row lat_idx
\* and the cell lon_idx of the row are there, the default -9999 otherwise.
getValue(d, gridName, lat_idx, lon_idx) ==
    IF /\ gridName \in DOMAIN d
       /\ (lat_idx + 1) \in DOMAIN d[gridName]
       /\ (lon_idx + 1) \in DOMAIN d[gridName][lat_idx + 1]
    THEN d[gridName][lat_idx + 1][lon_idx + 1]
    ELSE Sentinel

\* Lines 164-182 without the division by 2 of lines 172-173: the sum of the
\* two vectors instead of their average.
windVectorSum(speed_asc, card_asc, speed_dsc, card_dsc) ==
    LET x_asc == ZScale(speed_asc, Cos2(card_asc))
        y_asc == ZScale(speed_asc, Sin2(card_asc))
        x_dsc == ZScale(speed_dsc, Cos2(card_dsc))
        y_dsc == ZScale(speed_dsc, Sin2(card_dsc))
        x4    == ZScale(2, ZAdd(x_asc, x_dsc))
        y4    == ZScale(2, ZAdd(y_asc, y_dsc))
    IN  [speed    |-> ZAdd(ZMul(x4, x4), ZMul(y4, y4)),
         cardinal |-> RoundedCardinal(x4, y4)]

\* Lines 164-182.  x_asc etc. are twice the components of the code, so
\* x4 = x_asc + x_dsc is 4*x_avg, and 16*final_wind_speed^2 = x4^2 + y4^2.
windVectorAverage(speed_asc, card_asc, speed_dsc, card_dsc) ==
    LET x_asc == ZScale(speed_asc, Cos2(card_asc))
        y_asc == ZScale(speed_asc, Sin2(card_asc))
        x_dsc == ZScale(speed_dsc, Cos2(card_dsc))
        y_dsc == ZScale(speed_dsc, Sin2(card_dsc))
        x4    == ZAdd(x_asc, x_dsc)
        y4    == ZAdd(y_asc, y_dsc)
    IN  [speed    |-> ZAdd(ZMul(x4, x4), ZMul(y4, y4)),
         cardinal |-> RoundedCardinal(x4, y4)]

\* reconcileWind with the test of line 162 asking for both speeds above zero.
reconcileWindBothPositive(speed_asc, card_asc, speed_dsc, card_dsc) ==
    IF speed_asc > Sentinel /\ speed_dsc > Sentinel
       /\ (speed_asc > 0 /\ speed_dsc > 0)
    THEN windVectorAverage(speed_asc, card_asc, speed_dsc, card_dsc)
    ELSE [speed |-> ExactSpeed(0), cardinal |-> 0]

\* Lines 154-183: final_wind_speed and final_wind_cardinal.
reconcileWind(speed_asc, card_asc, speed_dsc, card_dsc) ==
    IF speed_asc > Sentinel /\ speed_dsc > Sentinel
       /\ (speed_asc > 0 \/ speed_dsc > 0)
    THEN windVectorAverage(speed_asc, card_asc, speed_dsc, card_dsc)
    ELSE [speed |-> ExactSpeed(0), cardinal |-> 0]

\* What getData(lat, lon) returns on this.data = d.  The debug log of lines
\* 195-204 formats numbers only and changes nothing.  findClosestIndex reads
\* arr.length, which throws when the axis is undefined.
getData(d, la, lo) ==
    IF d = NullData THEN DefaultRecord
    ELSE IF "lats" \notin DOMAIN d \/ "lons" \notin DOMAIN d THEN TypeError
    ELSE
    LET lat_idx   == findClosestIndex(d.lats, la)
        lon_idx   == findClosestIndex(d.lons, lo)
        speed_asc == getValue(d, "wind_speed_mps_asc", lat_idx, lon_idx)
        card_asc  == getValue(d, "wind_cardinal_asc", lat_idx, lon_idx)
        speed_dsc == getValue(d, "wind_speed_mps_dsc", lat_idx, lon_idx)
        card_dsc  == getValue(d, "wind_cardinal_dsc", lat_idx, lon_idx)
        wind      == reconcileWind(speed_asc, card_asc, speed_dsc, card_dsc)
        final_wind_speed    == wind.speed
        final_wind_cardinal == wind.cardinal
        depth              == getValue(d, "depth", lat_idx, lon_idx)
        current_speed_mps  == getValue(d, "current_speed_mps", lat_idx, lon_idx)
        current_cardinal   ==
            MathRound(getValue(d, "current_cardinal", lat_idx, lon_idx))
        waves_height_m     == getValue(d, "waves_height", lat_idx, lon_idx)
        weekly_precip_mean == getValue(d, "precipitation", lat_idx, lon_idx)
        ice_conc           == getValue(d, "ice_conc", lat_idx, lon_idx)
    IN
        [depth |-> IF depth > Sentinel THEN <<depth>> ELSE NullDepth,
         \* a square root is never below 0, so > -9999
         wind_speed_mps |-> final_wind_speed,
         wind_direction_deg |->
            (IF final_wind_cardinal > Sentinel THEN final_wind_cardinal ELSE 0) * 45,
         current_speed_mps |->
            IF current_speed_mps > Sentinel THEN current_speed_mps ELSE 0,
         current_direction_deg |->
            (IF current_cardinal > Sentinel THEN current_cardinal ELSE 0) * 45,
         waves_height_m |->
            IF waves_height_m > Sentinel THEN waves_height_m ELSE 0,
         weekly_precip_mean |->
            IF weekly_precip_mean > Sentinel THEN weekly_precip_mean ELSE 0,
         ice_conc |-> IF ice_conc > Sentinel THEN ice_conc ELSE 0]

-----------------------------------------------------------------------------
(* The constructor, lines 51-77.                                           *)

\* const PADDING = 10.0, line 66
PADDING == 10

\* Lines 67-72 without the clamping of lines 75-76.
constructorBoundsNoClamp(s, e) ==
    [min_lat |-> Min(s.lat, e.lat) - PADDING,
     max_lat |-> Max(s.lat, e.lat) + PADDING,
     min_lon |-> Min(s.lng, e.lng) - PADDING,
     max_lon |-> Max(s.lng, e.lng) + PADDING]

\* this.bounds as the constructor leaves it, lines 67-76.
constructorBounds(s, e) ==
    LET b == [min_lat |-> Min(s.lat, e.lat) - PADDING,
              max_lat |-> Max(s.lat, e.lat) + PADDING,
              min_lon |-> Min(s.lng, e.lng) - PADDING,
              max_lon |-> Max(s.lng, e.lng) + PADDING]
    IN  [b EXCEPT !.min_lat = Max(-90, b.min_lat),
                  !.max_lat = Min(90, b.max_lat)]

\* The endpoints a cache is constructed with: latitudes in [-90, 90].
Endpoints ==
    {[lat |-> -88, lng |-> 0],    [lat |-> -80, lng |-> 0],
     [lat |-> 20,  lng |-> 20],   [lat |-> 85,  lng |-> 175]}

-----------------------------------------------------------------------------
(* Response bodies of the upstream service.                                *)

Channels ==
    {"depth", "wind_speed_mps_asc", "wind_cardinal_asc", "wind_speed_mps_dsc",
     "wind_cardinal_dsc", "current_speed_mps", "current_cardinal",
     "waves_height", "precipitation", "ice_conc"}

WindSpeedChannels == {"wind_speed_mps_asc", "wind_speed_mps_dsc"}

WindCardinalChannels == {"wind_cardinal_asc", "wind_cardinal_dsc"}

WindChannels == WindSpeedChannels \cup WindCardinalChannels

OtherChannels == Channels \ WindChannels

\* The axes of the grids: two latitudes, two longitudes.
GridLats == <<0, 10>>

GridLons == <<0, 10>>

\* The value of every cell of a channel but the last cell of the last row.
Background(ch) ==
    IF ch \in WindSpeedChannels THEN 1
    ELSE IF ch \in WindCardinalChannels THEN 3
    ELSE IF ch = "current_cardinal" THEN 6
    ELSE 8

\* The real value of the last cell of the last row in a populated channel.
Populated(ch) ==
    IF ch \in WindSpeedChannels THEN 2
    ELSE IF ch \in WindCardinalChannels THEN 1
    ELSE IF ch = "current_cardinal" THEN 5
    ELSE 4

\* What a grid holds for the last cell of the last row of a channel: the
\* channel is absent, its last row is absent, the last cell of that row is
\* absent, or the cell holds v.
NoChannel == <<"channel", 0>>

NoRow == <<"row", 0>>

NoCell == <<"cell", 0>>

Cell(v) == <<"value", v>>

Holes == {NoChannel, NoRow, NoCell}

\* The rows of channel ch under option o (not NoChannel).
ChannelRows(ch, o) ==
    LET bg == Background(ch)
    IN  IF o = NoRow THEN << <<bg, bg>> >>
        ELSE IF o = NoCell THEN << <<bg, bg>>, <<bg>> >>
        ELSE << <<bg, bg>>, <<bg, o[2]>> >>

\* The grid over the axes lats, lons with the channels as opt says.
GridOn(lats, lons, opt) ==
    [k \in {"lats", "lons"} \cup {ch \in Channels : opt[ch] # NoChannel} |->
        IF k = "lats" THEN lats
        ELSE IF k = "lons" THEN lons
        ELSE ChannelRows(k, opt[k])]

Grid(opt) == GridOn(GridLats, GridLons, opt)

AllPopulated == [ch \in Channels |-> Cell(Populated(ch))]

\* Real values of a wind speed cell and of a wind cardinal cell.
SpeedValues == 0..MaxSpeed

CardinalValues == 0..7

\* The wind channels hold real values or the sentinel, the rest is populated.
WindOptions ==
    {[ch \in Channels |->
        IF ch = "wind_speed_mps_asc" THEN Cell(sa)
        ELSE IF ch = "wind_cardinal_asc" THEN Cell(ca)
        ELSE IF ch = "wind_speed_mps_dsc" THEN Cell(sd)
        ELSE IF ch = "wind_cardinal_dsc" THEN Cell(cd)
        ELSE Cell(Populated(ch))] :
        sa \in SpeedValues \cup {Sentinel}, ca \in CardinalValues \cup {Sentinel},
        sd \in SpeedValues \cup {Sentinel}, cd \in CardinalValues \cup {Sentinel}}

\* Fully populated grids: every cell holds a real value.
FullOptions ==
    {o \in WindOptions : \A ch \in WindChannels : o[ch][2] # Sentinel}

\* Fully populated grids whose descending pass is the populated one.
FullAscOptions ==
    {o \in FullOptions : \A ch \in {"wind_speed_mps_dsc", "wind_cardinal_dsc"} :
                            o[ch] = Cell(Populated(ch))}

\* A fully populated grid with one channel, row or cell removed.
SingleHoleOptions ==
    {[f EXCEPT ![ch] = h] : f \in FullAscOptions, ch \in Channels, h \in Holes}

\* Any subset of the channels, of their last rows, or of their last cells
\* absent.
SubsetHoleOptions ==
    {[ch \in Channels |-> IF ch \in S THEN h ELSE Cell(Populated(ch))] :
        S \in SUBSET Channels, h \in Holes}

\* Any subset of the channels other than wind holding the sentinel.
SentinelOptions ==
    {[ch \in Channels |-> IF ch \in S THEN Cell(Sentinel) ELSE Cell(Populated(ch))] :
        S \in SUBSET OtherChannels}

\* Wind speed cells below zero: the upstream body is not validated, and every
\* cell above the sentinel is taken as a real value (line 162).
NegativeSpeeds == {-1}

\* At least one pass reports a speed below zero, every cell is populated.
NegativeSpeedOptions ==
    {[ch \in Channels |->
        IF ch = "wind_speed_mps_asc" THEN Cell(sa)
        ELSE IF ch = "wind_cardinal_asc" THEN Cell(ca)
        ELSE IF ch = "wind_speed_mps_dsc" THEN Cell(sd)
        ELSE IF ch = "wind_cardinal_dsc" THEN Cell(cd)
        ELSE Cell(Populated(ch))] :
        sa \in SpeedValues \cup NegativeSpeeds, ca \in CardinalValues,
        sd \in NegativeSpeeds, cd \in CardinalValues}

\* Bodies with an empty lons axis: lats.length x 0 grids.
EmptyLonsBodies ==
    {GridOn(GridLats, <<>>, [ch \in Channels |-> NoChannel]),
     [lats |-> GridLats, lons |-> <<>>, depth |-> << <<>>, <<>> >>,
      wind_speed_mps_asc |-> << <<>> >>]}

\* Bodies that initialize() must refuse.
ErrorBody == [error |-> "no data for this date"]

ErrorGridBody == [Grid(AllPopulated) EXCEPT !["lats"] = GridLats] @@ ErrorBody

NoLatsBody == [lons |-> GridLons, depth |-> << <<4, 4>>, <<4, 4>> >>]

EmptyLatsBody == [lats |-> <<>>, lons |-> <<>>]

NoLonsBody == [lats |-> GridLats, depth |-> << <<4, 4>>, <<4, 4>> >>]

BadBodies == {ErrorBody, ErrorGridBody, NoLatsBody, EmptyLatsBody, NoLonsBody}

-----------------------------------------------------------------------------
(* initialize(), lines 84-121.                                             *)

\* Lines 103-119 with the catch block leaving this.data as line 103 set it.
receiveJsonKeepData(body) ==
    IF \/ "error" \in DOMAIN body
       \/ "lats" \notin DOMAIN body
       \/ Len(body.lats) = 0
       \/ "lons" \notin DOMAIN body
    THEN [data |-> body, ret |-> "false"]
    ELSE [data |-> body, ret |-> "true"]

\* Lines 103-119 without the log of line 110, which reads this.data.lons.length.
receiveJsonNoLog(body) ==
    IF \/ "error" \in DOMAIN body
       \/ "lats" \notin DOMAIN body
       \/ Len(body.lats) = 0
    THEN [data |-> NullData, ret |-> "false"]
    ELSE [data |-> body, ret |-> "true"]

\* Lines 103-119, which run without suspending once response.json() has
\* resolved to body: this.data = body (103); the check of line 106 throws on an
\* error field (a non-empty message), on lats absent or empty; the log of line
\* 110 reads this.data.lons.length, a TypeError when lons is absent; the catch
\* block (113-119) sets this.data = null and returns false.
receiveJson(body) ==
    IF \/ "error" \in DOMAIN body
       \/ "lats" \notin DOMAIN body
       \/ Len(body.lats) = 0
       \/ "lons" \notin DOMAIN body
    THEN [data |-> NullData, ret |-> "false"]
    ELSE [data |-> body, ret |-> "true"]

Calls == 1..MaxInitCalls

\* The call is made: lines 85-88 up to the await of fetch.
InitializeCall(p) ==
    /\ pc[p] = "idle"
    /\ pc' = [pc EXCEPT ![p] = "fetch"]
    /\ UNCHANGED <<startLatLng, endLatLng, voyageDate, bounds, data,
                   debugCounter, ret, lat, lon, result, idxVars>>

\* The catch block, lines 113-119, ending call p.
Catch(p) ==
    /\ data' = NullData
    /\ ret' = [ret EXCEPT ![p] = "false"]
    /\ pc' = [pc EXCEPT ![p] = "done"]
    /\ UNCHANGED <<startLatLng, endLatLng, voyageDate, bounds, debugCounter,
                   lat, lon, result, idxVars>>

\* fetch rejects (the transport failed), line 88.
FetchRejects(p) ==
    /\ pc[p] = "fetch"
    /\ Catch(p)

\* fetch resolves with response.ok: line 103 awaits response.json().
FetchResolvesOk(p) ==
    /\ pc[p] = "fetch"
    /\ pc' = [pc EXCEPT ![p] = "json"]
    /\ UNCHANGED <<startLatLng, endLatLng, voyageDate, bounds, data,
                   debugCounter, ret, lat, lon, result, idxVars>>

\* fetch resolves with a non-success status: line 96 awaits response.text().
FetchResolvesNotOk(p) ==
    /\ pc[p] = "fetch"
    /\ pc' = [pc EXCEPT ![p] = "text"]
    /\ UNCHANGED <<startLatLng, endLatLng, voyageDate, bounds, data,
                   debugCounter, ret, lat, lon, result, idxVars>>

\* response.text() settles: line 97 throws (or the await itself does).
TextSettles(p) ==
    /\ pc[p] = "text"
    /\ Catch(p)

\* response.json() rejects: the body is no JSON, or the transfer broke.
JsonRejects(p) ==
    /\ pc[p] = "json"
    /\ Catch(p)

\* response.json() resolves to body: lines 103-119.
JsonResolves(p, body) ==
    /\ pc[p] = "json"
    /\ data' = receiveJson(body).data
    /\ ret' = [ret EXCEPT ![p] = receiveJson(body).ret]
    /\ pc' = [pc EXCEPT ![p] = "done"]
    /\ UNCHANGED <<startLatLng, endLatLng, voyageDate, bounds, debugCounter,
                   lat, lon, result, idxVars>>

\* getData with this.debugCounter++ moved above the check of line 133: the
\* counter counts the calls on an uninitialized cache too.
GetDataCountsEveryCall(la, lo) ==
    /\ debugCounter < MaxGetCalls
    /\ lat' = la
    /\ lon' = lo
    /\ result' = getData(data, la, lo)
    /\ debugCounter' = debugCounter + 1
    /\ UNCHANGED <<startLatLng, endLatLng, voyageDate, bounds, data, pc, ret,
                   idxVars>>

\* getData(la, lo), lines 131-218: this.debugCounter++ (line 194) is reached
\* on a loaded grid only.
GetData(la, lo) ==
    /\ debugCounter < MaxGetCalls
    /\ lat' = la
    /\ lon' = lo
    /\ result' = getData(data, la, lo)
    /\ debugCounter' = IF result' \in {DefaultRecord, TypeError}
                       THEN debugCounter
                       ELSE debugCounter + 1
    /\ UNCHANGED <<startLatLng, endLatLng, voyageDate, bounds, data, pc, ret,
                   idxVars>>

\* findClosestIndex(arr, target) called on its own.
FindClosestIndex ==
    /\ closest = -1
    /\ closest' = findClosestIndex(arr, target)
    /\ UNCHANGED <<arr, target, cacheVars>>

-----------------------------------------------------------------------------
(* Specifications.                                                         *)

\* No getData call has returned yet.
NoResult == [none |-> TRUE]

\* Query coordinates: below the axes, midway between the two axis values,
\* above the axes.
QueryLats == {-3, 5, 12}

QueryLons == {-3, 12}

\* The bodies response.json() resolves to in Spec.
UpstreamBodies ==
    BadBodies
    \cup {Grid(AllPopulated),
          Grid([AllPopulated EXCEPT !["depth"] = NoCell,
                                    !["wind_cardinal_dsc"] = NoChannel,
                                    !["ice_conc"] = Cell(Sentinel)])}
    \cup EmptyLonsBodies

\* The bodies of SpecGrid, and the grids initialize() loads from them.
GridBodies ==
    BadBodies \cup EmptyLonsBodies
    \cup {Grid(o) : o \in WindOptions \cup SingleHoleOptions
                         \cup SubsetHoleOptions \cup SentinelOptions
                         \cup NegativeSpeedOptions}

LoadedGrids == {receiveJson(b).data : b \in GridBodies} \ {NullData}

\* Strictly ascending axes of up to MaxAxisLen values of 0..MaxCoord.
AscendingAxes ==
    {a \in UNION {[1..n -> 0..MaxCoord] : n \in 0..MaxAxisLen} :
        \A i \in 1..(Len(a) - 1) : a[i] < a[i + 1]}

\* The instance right after new EnvironmentalDataCache(s, e, landGrid, date).
Constructed(s, e) ==
    /\ startLatLng = s
    /\ endLatLng = e
    /\ voyageDate = "2024-06-01"
    /\ bounds = constructorBounds(s, e)
    /\ data = NullData
    /\ debugCounter = 0
    /\ pc = [p \in Calls |-> "idle"]
    /\ ret = [p \in Calls |-> "pending"]
    /\ lat = 0
    /\ lon = 0
    /\ result = NoResult

IdleIndex ==
    /\ arr = <<>>
    /\ target = 0
    /\ closest = -1

\* The life of one instance: construction, calls of initialize() that may
\* overlap, and getData calls at any time in between.
Init ==
    /\ \E s \in Endpoints, e \in Endpoints : Constructed(s, e)
    /\ IdleIndex

Next ==
    \/ \E p \in Calls : InitializeCall(p)
    \/ \E p \in Calls : FetchRejects(p)
    \/ \E p \in Calls : FetchResolvesOk(p)
    \/ \E p \in Calls : FetchResolvesNotOk(p)
    \/ \E p \in Calls : TextSettles(p)
    \/ \E p \in Calls : JsonRejects(p)
    \/ \E p \in Calls, body \in UpstreamBodies : JsonResolves(p, body)
    \/ \E la \in QueryLats, lo \in QueryLons : GetData(la, lo)

Spec == Init /\ [][Next]_vars

\* Queries on an instance that is uninitialized or holds a loaded grid (one
\* successful initialize()).
InitGrid ==
    /\ startLatLng = [lat |-> 10, lng |-> 10]
    /\ endLatLng = [lat |-> 20, lng |-> 20]
    /\ voyageDate = "2024-06-01"
    /\ bounds = constructorBounds(startLatLng, endLatLng)
    /\ data \in LoadedGrids \cup {NullData}
    /\ debugCounter = 0
    /\ pc = [p \in Calls |-> IF p = 1 /\ data # NullData THEN "done" ELSE "idle"]
    /\ ret = [p \in Calls |-> IF p = 1 /\ data # NullData THEN "true" ELSE "pending"]
    /\ lat = 0
    /\ lon = 0
    /\ result = NoResult
    /\ IdleIndex

NextGrid == \E la \in QueryLats, lo \in QueryLons : GetData(la, lo)

SpecGrid == InitGrid /\ [][NextGrid]_vars

\* findClosestIndex on every ascending axis and query value.
InitIdx ==
    /\ Constructed([lat |-> 10, lng |-> 10], [lat |-> 20, lng |-> 20])
    /\ arr \in AscendingAxes
    /\ target \in -1..(MaxCoord + 1)
    /\ closest = -1

NextIdx == FindClosestIndex

SpecIdx == InitIdx /\ [][NextIdx]_vars

-----------------------------------------------------------------------------
(* Helpers of the properties.                                              *)

Clamp(x, lo, hi) == Max(lo, Min(hi, x))

\* |axis[i] - value| for the JavaScript index i.
Distance(i) == Abs(arr[i + 1] - target)

\* The last getData call returned a record read from the loaded grid.
ReadFromGrid == data # NullData /\ result \notin {NoResult, TypeError}

\* The indices the last getData call resolved.
LatIdx == findClosestIndex(data.lats, lat)

LonIdx == findClosestIndex(data.lons, lon)

\* The cell of channel ch at the resolved indices is absent.
AbsentAt(d, ch) ==
    ~ /\ ch \in DOMAIN d
      /\ (LatIdx + 1) \in DOMAIN d[ch]
      /\ (LonIdx + 1) \in DOMAIN d[ch][LatIdx + 1]

\* What getValue reads for channel ch at the resolved indices.
Raw(ch) == getValue(data, ch, LatIdx, LonIdx)

\* Sentinel or absent.
Missing(ch) == Raw(ch) = Sentinel

\* The record the specification documents for an uninitialized cache.
FullDefaultRecord ==
    [depth |-> NullDepth, wind_speed_mps |-> ExactSpeed(0),
     wind_direction_deg |-> 0, current_speed_mps |-> 0,
     current_direction_deg |-> 0, waves_height_m |-> 0,
     weekly_precip_mean |-> 0, ice_conc |-> 0]

-----------------------------------------------------------------------------
(* C1: nearest-index search.                                               *)

\* C1 as claimed: on a strictly ascending axis findClosestIndex returns an
\* index that minimizes |axis[i] - value|, and of two equally distant
\* neighbours it returns the lower index.
C1_NearestTieLow ==
    (closest # -1 /\ Len(arr) > 0) =>
        /\ closest \in 0..(Len(arr) - 1)
        /\ \A i \in 0..(Len(arr) - 1) : Distance(closest) <= Distance(i)
        /\ \A i \in 0..(closest - 1) : Distance(i) > Distance(closest)

\* C1 as amended: findClosestIndex returns an index that minimizes
\* |axis[i] - value| on every non-empty strictly ascending axis, of two equally
\* distant neighbours it returns the HIGHER index, and on the empty axis it
\* returns 0.
C1_NearestTieHigh ==
    (closest # -1) =>
        IF Len(arr) = 0 THEN closest = 0
        ELSE /\ closest \in 0..(Len(arr) - 1)
             /\ \A i \in 0..(Len(arr) - 1) : Distance(closest) <= Distance(i)
             /\ \A i \in (closest + 1)..(Len(arr) - 1) :
                    Distance(i) > Distance(closest)

\* The query value lies midway between two neighbours and the search returned
\* the higher of them.
C1_TieWitness ==
    /\ closest > 0
    /\ closest < Len(arr)
    /\ target - arr[closest] = arr[closest + 1] - target
    /\ target > arr[closest]

-----------------------------------------------------------------------------
(* C2: the failure path of initialize().                                   *)

\* C2 as claimed: a call of initialize() whose fetch rejects, whose response
\* is not ok, or whose body has an error field or no or empty lats, returns
\* false with this.data null; and a getData call made after a failed call,
\* while no call has succeeded, returns the full-default record: depth null
\* and wind_speed_mps, wind_direction_deg, current_speed_mps,
\* current_direction_deg, waves_height_m, weekly_precip_mean, ice_conc all 0.
C2_FailureGivesFullDefault ==
    [][/\ \A p \in Calls :
             (\/ FetchRejects(p)
              \/ TextSettles(p)
              \/ \E b \in UpstreamBodies :
                    /\ JsonResolves(p, b)
                    /\ \/ "error" \in DOMAIN b
                       \/ "lats" \notin DOMAIN b
                       \/ Len(b.lats) = 0)
             => (ret'[p] = "false" /\ data' = NullData)
       /\ (/\ \E p \in Calls : ret[p] = "false"
           /\ \A p \in Calls : ret[p] # "true"
           /\ result' # result)
             => result' = FullDefaultRecord]_vars

-----------------------------------------------------------------------------
(* C3: getData never throws.                                               *)

\* C3: getData returns a record, never a TypeError, on an uninitialized cache
\* and on every loaded grid, whatever channels, rows or cells are absent and
\* also with an empty lons axis.
C3_GetDataNeverThrows == result # TypeError

\* getData answered on a grid in which depth is absent as a channel and on a
\* grid whose lons axis is empty.
C3_SparseWitness ==
    /\ ReadFromGrid
    /\ "depth" \notin DOMAIN data
    /\ "current_speed_mps" \notin DOMAIN data
    /\ Len(data.lons) = 0
    /\ result.depth = NullDepth

-----------------------------------------------------------------------------
(* C4: the sentinel never reaches a returned record.                       *)

\* C4 as claimed: a sentinel or absent depth cell gives depth = null, a
\* sentinel or absent cell of any other channel gives 0 for the field derived
\* from it, and no field is -9999 or -9999*45.
C4_SentinelNeverLeaks ==
    ReadFromGrid =>
        /\ Missing("depth") => result.depth = NullDepth
        /\ Missing("current_speed_mps") => result.current_speed_mps = 0
        /\ Missing("current_cardinal") => result.current_direction_deg = 0
        /\ Missing("waves_height") => result.waves_height_m = 0
        /\ Missing("precipitation") => result.weekly_precip_mean = 0
        /\ Missing("ice_conc") => result.ice_conc = 0
        /\ \A ch \in WindSpeedChannels :
              Missing(ch) => result.wind_speed_mps = ExactSpeed(0)
        /\ \A ch \in WindCardinalChannels :
              Missing(ch) => result.wind_direction_deg = 0
        /\ result.depth # <<Sentinel>>
        /\ \A v \in {result.wind_direction_deg, result.current_speed_mps,
                     result.current_direction_deg, result.waves_height_m,
                     result.weekly_precip_mean, result.ice_conc} :
              v \notin {Sentinel, Sentinel * 45}

-----------------------------------------------------------------------------
(* C5: the bounding box.                                                   *)

\* C5: the bounds are the padded, latitude-clamped box of the two endpoints,
\* with min_lat <= max_lat, both in [-90, 90], the longitudes unclamped, in
\* every state initialize() and getData() lead to.
C5_Bounds ==
    /\ bounds.min_lat =
          Clamp(Min(startLatLng.lat, endLatLng.lat) - PADDING, -90, 90)
    /\ bounds.max_lat =
          Clamp(Max(startLatLng.lat, endLatLng.lat) + PADDING, -90, 90)
    /\ bounds.min_lon = Min(startLatLng.lng, endLatLng.lng) - PADDING
    /\ bounds.max_lon = Max(startLatLng.lng, endLatLng.lng) + PADDING
    /\ bounds.min_lat <= bounds.max_lat
    /\ bounds.min_lat \in -90..90
    /\ bounds.max_lat \in -90..90

\* The clamp acted at construction (-88 - 10 became -90), the longitude
\* exceeds 180, and initialize() and getData() have both run since.
C5_ClampWitness ==
    /\ startLatLng.lat = -88
    /\ bounds.min_lat = -90
    /\ bounds.max_lon > 180
    /\ \E p \in Calls : ret[p] = "true"
    /\ result \notin {NoResult, DefaultRecord}

-----------------------------------------------------------------------------
(* C6: no partial or unvalidated grid is visible.                          *)

\* C6: wherever getData can run (initialize() suspended at an await, returned
\* or failed), this.data is null or a body that passed validation: no error
\* field, lats present and not empty.
C6_NoPartialGrid ==
    \/ data = NullData
    \/ /\ "error" \notin DOMAIN data
       /\ "lats" \in DOMAIN data
       /\ Len(data.lats) > 0

\* getData read a loaded grid while another call of initialize() was
\* suspended, after a call had failed.
C6_InterleavedWitness ==
    /\ \E p \in Calls : pc[p] \in {"fetch", "text", "json"}
    /\ \E p \in Calls : ret[p] = "true"
    /\ data # NullData
    /\ result \notin {NoResult, DefaultRecord}

-----------------------------------------------------------------------------
(* C7: uninitialized -> ready.                                             *)

\* C7 as claimed: this.data leaves null only in a step in which a call of
\* initialize() returns true, and once it is a grid it never is null again.
C7_NeverReverts ==
    [][/\ (data = NullData /\ data' # NullData) =>
              \E p \in Calls : ret[p] = "pending" /\ ret'[p] = "true"
       /\ (data # NullData) => (data' # NullData)]_vars

\* C7 as amended: this.data leaves null only in a step in which a call of
\* initialize() returns true; getData never changes it; once it is a grid it
\* becomes null again only in a step in which a call of initialize() fails
\* (returns false).
C7_RevertsOnlyOnFailedInitialize ==
    [][/\ (data = NullData /\ data' # NullData) =>
              \E p \in Calls : ret[p] = "pending" /\ ret'[p] = "true"
       /\ (data # NullData /\ data' = NullData) =>
              \E p \in Calls : ret[p] = "pending" /\ ret'[p] = "false"
       /\ (result' # result \/ debugCounter' # debugCounter) => data' = data]_vars

\* A call of initialize() succeeded, another failed afterwards, and the cache
\* is uninitialized again.
C7_RevertedWitness ==
    /\ data = NullData
    /\ \E p \in Calls : ret[p] = "true"
    /\ \E p \in Calls : ret[p] = "false"

-----------------------------------------------------------------------------
(* C8: the directions of a returned record.                                *)

\* The cardinals read are 0..7 or missing, the speeds read are >= 0 or missing.
CardinalsAndSpeedsInRange ==
    /\ \A ch \in WindCardinalChannels \cup {"current_cardinal"} :
          Missing(ch) \/ Raw(ch) \in 0..7
    /\ \A ch \in WindSpeedChannels \cup {"current_speed_mps"} :
          Missing(ch) \/ Raw(ch) >= 0

\* C8 as claimed: on such a grid wind_direction_deg and current_direction_deg
\* are both in [0, 360), the reconciled wind cardinal being one of 0..7.
C8_DirectionsInRange ==
    (ReadFromGrid /\ CardinalsAndSpeedsInRange) =>
        /\ result.wind_direction_deg >= 0
        /\ result.wind_direction_deg < 360
        /\ result.current_direction_deg >= 0
        /\ result.current_direction_deg < 360

-----------------------------------------------------------------------------
(* C9: wind reconciliation is a vector average.                            *)

-----------------------------------------------------------------------------
(* C10: absence is handled per field.                                      *)

\* The grid d with channel ch put back, v in the cell that was removed.
Refill(d, ch, v) ==
    [k \in DOMAIN d \cup {ch} |->
        IF k = ch THEN ChannelRows(ch, Cell(v)) ELSE d[k]]

\* The fields of the record derived from channel ch.
DerivedFields(ch) ==
    CASE ch = "depth" -> {"depth"}
      [] ch \in WindChannels -> {"wind_speed_mps", "wind_direction_deg"}
      [] ch = "current_speed_mps" -> {"current_speed_mps"}
      [] ch = "current_cardinal" -> {"current_direction_deg"}
      [] ch = "waves_height" -> {"waves_height_m"}
      [] ch = "precipitation" -> {"weekly_precip_mean"}
      [] ch = "ice_conc" -> {"ice_conc"}

\* The documented default of the field derived from channel ch: the direction
\* for a cardinal channel, the speed for a speed channel.
DefaultsOf(ch) ==
    CASE ch = "depth" -> [depth |-> NullDepth]
      [] ch \in WindSpeedChannels -> [wind_speed_mps |-> ExactSpeed(0)]
      [] ch \in WindCardinalChannels -> [wind_direction_deg |-> 0]
      [] ch = "current_speed_mps" -> [current_speed_mps |-> 0]
      [] ch = "current_cardinal" -> [current_direction_deg |-> 0]
      [] ch = "waves_height" -> [waves_height_m |-> 0]
      [] ch = "precipitation" -> [weekly_precip_mean |-> 0]
      [] ch = "ice_conc" -> [ice_conc |-> 0]

\* The real values a cell of channel ch may have held before it was removed.
RealValues(ch) ==
    IF ch \in WindSpeedChannels THEN SpeedValues
    ELSE IF ch \in WindCardinalChannels THEN CardinalValues
    ELSE {Populated(ch)}

\* C10 as claimed: when the cell read is absent in exactly one channel (the
\* channel, its row or the cell removed from a fully populated grid), the
\* record has the documented default in the field derived from that channel,
\* and every field not derived from it is what getData returns at the same
\* coordinate on the fully populated grid.
C10_AbsencePerField ==
    ReadFromGrid =>
        \A ch \in Channels :
            (/\ AbsentAt(data, ch)
             /\ \A other \in Channels \ {ch} :
                   ~AbsentAt(data, other) /\ Raw(other) > Sentinel) =>
                /\ \A f \in DOMAIN DefaultsOf(ch) : result[f] = DefaultsOf(ch)[f]
                /\ \A v \in RealValues(ch) :
                      \A f \in DOMAIN result \ DerivedFields(ch) :
                          result[f] = getData(Refill(data, ch, v), lat, lon)[f]

-----------------------------------------------------------------------------
(* C11: getData is read-only.                                              *)

\* C11: a getData call leaves this.data, this.bounds and this.voyageDate as
\* they are; it adds exactly 1 to debugCounter on a loaded grid and leaves it
\* unchanged on an uninitialized cache; and a call with the coordinates of the
\* call before it, on the same loaded grid, returns the same record.
C11_GetDataReadOnly ==
    [][/\ data' = data
       /\ bounds' = bounds
       /\ voyageDate' = voyageDate
       /\ debugCounter' = IF data = NullData THEN debugCounter
                          ELSE debugCounter + 1
       /\ (data # NullData /\ result # NoResult /\ lat' = lat /\ lon' = lon)
             => result' = result]_vars

\* Two getData calls with the same coordinates have run on a loaded grid with
\* an absent cell: the counter is 2.
C11_TwoCallsWitness ==
    /\ ReadFromGrid
    /\ debugCounter = 2
    /\ lat = 12
    /\ lon = 12
    /\ AbsentAt(data, "depth")

-----------------------------------------------------------------------------
(* C12: when the reconciled wind is speed 0 and direction 0.               *)

\* The vector average of the four wind cells read.
C12_Average ==
    windVectorAverage(Raw("wind_speed_mps_asc"), Raw("wind_cardinal_asc"),
                      Raw("wind_speed_mps_dsc"), Raw("wind_cardinal_dsc"))

\* The record's wind is speed 0 and direction 0 exactly when zero holds, and
\* is the vector average of the two passes otherwise.
C12_ZeroWindExactlyWhen(zero) ==
    /\ (result.wind_speed_mps = ExactSpeed(0)
        /\ result.wind_direction_deg = 0) <=> zero
    /\ ~zero =>
          /\ result.wind_speed_mps = C12_Average.speed
          /\ result.wind_direction_deg = C12_Average.cardinal * 45

\* One pass's speed is the sentinel or absent.
C12_OnePassMissing ==
    Missing("wind_speed_mps_asc") \/ Missing("wind_speed_mps_dsc")

\* C12 as claimed: the record read from a grid has wind speed 0 and wind
\* direction 0 exactly when one pass's speed is the sentinel or absent, or both
\* speeds are exactly zero; in every other case its wind is the vector average
\* of the two passes.
C12_ZeroWindWhenBothZero ==
    ReadFromGrid =>
        C12_ZeroWindExactlyWhen(
            \/ C12_OnePassMissing
            \/ (Raw("wind_speed_mps_asc") = 0 /\ Raw("wind_speed_mps_dsc") = 0))

\* C12 amended: the record read from a grid has wind speed 0 and wind direction
\* 0 exactly when one pass's speed is the sentinel or absent, or neither speed
\* is above zero; in every other case its wind is the vector average of the
\* two passes.
C12_ZeroWindUnlessOnePositive ==
    ReadFromGrid =>
        C12_ZeroWindExactlyWhen(
            \/ C12_OnePassMissing
            \/ (Raw("wind_speed_mps_asc") <= 0 /\ Raw("wind_speed_mps_dsc") <= 0))

\* Both passes report a real speed, one of them below zero and neither above:
\* the record's wind is speed 0 and direction 0.
C12_NegativeSpeedWitness ==
    /\ ReadFromGrid
    /\ ~C12_OnePassMissing
    /\ Raw("wind_speed_mps_asc") = 0
    /\ Raw("wind_speed_mps_dsc") < 0
    /\ result.wind_speed_mps = ExactSpeed(0)
    /\ result.wind_direction_deg = 0

====
